---- MODULE Spec2Model ----
(***************************************************************************)
(* Recurring-expense pattern detector of mofodox/leftover                  *)
(* (src/lib/validation.ts: RecurringExpenseDetector, RecurringExpense-     *)
(* Manager; src/components/ui/RecurringExpensePatterns.tsx).               *)
(*                                                                         *)
(* Number representation.  The code computes with IEEE doubles; the model  *)
(* computes with exact values wherever the value is rational:              *)
(*   - an amount is an integer number of cents;                            *)
(*   - a similarity score and an average amount are exact rationals        *)
(*     [num, den], reduced to lowest terms;                                *)
(*   - a mean interval is the exact rational sum/length.                   *)
(* The only irrational step is Math.sqrt in determineFrequency: the ratio  *)
(* standardDeviation/avgInterval is carried in hundredths, rounded down,   *)
(* so a confidence is an integer number of thousandths.                    *)
(*                                                                         *)
(* Dates.  Every expense date is produced by                               *)
(* new Date("YYYY-MM-DD").toISOString() (AddExpenseForm.tsx:137), that is, *)
(* midnight UTC of a calendar day; a date is the number of that day        *)
(* (days since 1970-01-01).  The Date getters and setters used by          *)
(* calculateNextExpectedDate work in the local time zone of the runtime,   *)
(* which is an input of the model (tz, a fixed offset from UTC in hours).  *)
(*                                                                         *)
(* Strings are sequences of one-character strings.                         *)
(***************************************************************************)
EXTENDS Integers, Sequences, FiniteSets, TLC

VARIABLES
    tz,            \* UTC offset of the runtime's local time zone, in hours
    expenses,      \* the caller's expense list (the `expenses` prop)
    detected,      \* the list returned by the latest detectPatterns call
    prevDetected,  \* the list returned by the call before it
    runs,          \* number of operations performed so far
    nextId,        \* source of fresh pattern ids (Date.now() + Math.random())
    call,          \* the latest call: its arguments and what it returned or found
    store,         \* the localStorage item 'recurring_patterns'
    dismissed      \* ids of the patterns that dismissPattern has removed

vars == <<tz, expenses, detected, prevDetected, runs, nextId, call, store, dismissed>>

-----------------------------------------------------------------------------
(* Generic helpers *)

Abs(x) == IF x < 0 THEN -x ELSE x

Max(a, b) == IF a >= b THEN a ELSE b

Min(a, b) == IF a <= b THEN a ELSE b

RECURSIVE GCD(_, _)
GCD(a, b) == IF b = 0 THEN a ELSE GCD(b, a % b)

\* The rational n/d (d > 0) in lowest terms.
Rat(n, d) ==
    LET g == GCD(Abs(n), d)
    IN  [num |-> n \div g, den |-> d \div g]

RatLeq(a, b) == a.num * b.den <= b.num * a.den

RatLess(a, b) == a.num * b.den < b.num * a.den

Zero == Rat(0, 1)

One == Rat(1, 1)

\* The value of 0/0 in IEEE arithmetic; every comparison with it is false.
NaN == [num |-> 0, den |-> 0]

RECURSIVE SumSeq(_)
SumSeq(s) == IF s = <<>> THEN 0 ELSE Head(s) + SumSeq(Tail(s))

Range(s) == {s[i] : i \in DOMAIN s}

RECURSIVE Isqrt(_, _)
\* Integer square root by descent from an upper estimate r: floor(sqrt(x)).
Isqrt(x, r) ==
    IF r * r <= x THEN r
    ELSE Isqrt(x, (r + x \div r) \div 2)

FloorSqrt(x) == IF x = 0 THEN 0 ELSE Isqrt(x, Min(x, 46340))

-----------------------------------------------------------------------------
(* Strings *)

UpperCase == <<"A","B","C","D","E","F","G","H","I","J","K","L","M",
               "N","O","P","Q","R","S","T","U","V","W","X","Y","Z">>

LowerCase == <<"a","b","c","d","e","f","g","h","i","j","k","l","m",
               "n","o","p","q","r","s","t","u","v","w","x","y","z">>

\* String.prototype.toLowerCase on the characters the model uses.
toLowerCase(str) ==
    [i \in DOMAIN str |->
        IF \E k \in DOMAIN UpperCase : UpperCase[k] = str[i]
        THEN LowerCase[CHOOSE k \in DOMAIN UpperCase : UpperCase[k] = str[i]]
        ELSE str[i]]

-----------------------------------------------------------------------------
(* Similarity engine *)

\* Variant: a looser similarity threshold of 0.7.
SimilarityThresholdLoose == Rat(7, 10)

SIMILARITY_THRESHOLD == Rat(8, 10)

MIN_OCCURRENCES == 2

\* Variant: a 20% amount tolerance.
AmountToleranceTwentyPercent == Rat(20, 100)

\* Variant: a 10% amount tolerance.
AmountToleranceTenPercent == Rat(10, 100)

AMOUNT_TOLERANCE == Rat(15, 100)

Min3(a, b, c) == Min(a, Min(b, c))

RECURSIVE fillRow(_, _, _, _, _)
\* Inner loop of the matrix fill: row i, given row i-1 (prev) and the cells of
\* row i computed so far (cur); cell j of a row is element j+1 of its sequence.
fillRow(str1, str2, i, prev, cur) ==
    LET j == Len(cur)
    IN  IF j > Len(str2) THEN cur
        ELSE LET cost == IF str1[i] = str2[j] THEN 0 ELSE 1
                 cell == Min3(prev[j + 1] + 1,     \* deletion
                              cur[j] + 1,          \* insertion
                              prev[j] + cost)      \* substitution
             IN  fillRow(str1, str2, i, prev, Append(cur, cell))

RECURSIVE fillMatrix(_, _, _, _)
\* Outer loop of the matrix fill: returns the last row, matrix[len1].
fillMatrix(str1, str2, i, prev) ==
    IF i > Len(str1) THEN prev
    ELSE fillMatrix(str1, str2, i + 1, fillRow(str1, str2, i, prev, <<i>>))

\* Variant: the distance is scaled by the length of the first string instead
\* of the longer one.
calculateStringSimilarityByFirst(str1, str2) ==
    LET len1 == Len(str1)
        len2 == Len(str2)
    IN  IF len1 = 0 THEN (IF len2 = 0 THEN One ELSE Zero)
        ELSE IF len2 = 0 THEN Zero
        ELSE LET row0 == [j \in 1..(len2 + 1) |-> j - 1]
                 last == fillMatrix(str1, str2, 1, row0)
             IN  Rat(Max(0, len1 - last[len2 + 1]), len1)

calculateStringSimilarity(str1, str2) ==
    LET len1 == Len(str1)
        len2 == Len(str2)
    IN  IF len1 = 0 THEN (IF len2 = 0 THEN One ELSE Zero)
        ELSE IF len2 = 0 THEN Zero
        ELSE LET row0   == [j \in 1..(len2 + 1) |-> j - 1]
                 last   == fillMatrix(str1, str2, 1, row0)
                 maxLen == Max(len1, len2)
             IN  Rat(maxLen - last[len2 + 1], maxLen)

\* Variant: the tolerance is 15% of the first amount instead of 15% of the
\* mean of the two.
calculateAmountSimilarityOfFirst(amount1, amount2) ==
    LET diff   == Abs(amount1 - amount2)
        tolNum == amount1 * AMOUNT_TOLERANCE.num
        tolDen == AMOUNT_TOLERANCE.den
    IN  IF diff * tolDen <= tolNum
        THEN (IF tolNum = 0 THEN NaN ELSE Rat(tolNum - diff * tolDen, tolNum))
        ELSE Zero

calculateAmountSimilarity(amount1, amount2) ==
    LET diff      == Abs(amount1 - amount2)
        \* avg = (amount1 + amount2) / 2; tolerance = avg * AMOUNT_TOLERANCE,
        \* kept as the fraction tolNum / tolDen (in cents)
        tolNum    == (amount1 + amount2) * AMOUNT_TOLERANCE.num
        tolDen    == 2 * AMOUNT_TOLERANCE.den
    IN  IF diff * tolDen <= tolNum
        THEN (IF tolNum = 0 THEN NaN
              ELSE Rat(tolNum - diff * tolDen, tolNum))
        ELSE Zero

\* overallSimilarity >= SIMILARITY_THRESHOLD, for the weights 0.5, 0.3, 0.2
\* (each side multiplied by 10 and by both denominators).
overallSimilarityReached(descriptionSimilarity, amountSimilarity, categoryMatch) ==
    IF amountSimilarity = NaN THEN FALSE
    ELSE LET s == descriptionSimilarity
             a == amountSimilarity
             c == IF categoryMatch THEN 2 ELSE 0
             t == SIMILARITY_THRESHOLD
         IN  (5 * s.num * a.den + 3 * a.num * s.den + c * s.den * a.den) * t.den
                >= 10 * t.num * s.den * a.den

Netflix == <<"N", "e", "t", "f", "l", "i", "x">>

Groceries == <<"G", "r", "o", "c", "e", "r", "i", "e", "s">>

netflix == <<"n", "e", "t", "f", "l", "i", "x">>

netflex == <<"n", "e", "t", "f", "l", "e", "x">>

\* The descriptions of the expense histories the model explores.
KnownDescriptions == {Netflix, Groceries, netflix, netflex}

\* calculateStringSimilarity(a.toLowerCase(), b.toLowerCase()) for each pair of
\* known descriptions, evaluated once.
KnownDescriptionSimilarity ==
    { [pair       |-> p,
       similarity |-> calculateStringSimilarity(toLowerCase(p[1]), toLowerCase(p[2]))] :
        p \in KnownDescriptions \X KnownDescriptions }

descriptionSimilarity(description1, description2) ==
    IF description1 \in KnownDescriptions /\ description2 \in KnownDescriptions
    THEN (CHOOSE r \in KnownDescriptionSimilarity :
              r.pair = <<description1, description2>>).similarity
    ELSE calculateStringSimilarity(toLowerCase(description1),
                                   toLowerCase(description2))

\* The predicate of the filter in findSimilarExpenses.
isSimilar(targetExpense, expense) ==
    IF expense.id = targetExpense.id THEN TRUE
    ELSE overallSimilarityReached(
            descriptionSimilarity(targetExpense.description, expense.description),
            calculateAmountSimilarity(targetExpense.amount, expense.amount),
            targetExpense.category = expense.category)

findSimilarExpenses(targetExpense, allExpenses) ==
    LET Test(expense) == isSimilar(targetExpense, expense)
    IN  SelectSeq(allExpenses, Test)

-----------------------------------------------------------------------------
(* Calendar: the arithmetic of the platform's Date object *)

\* Day number of the proleptic Gregorian date y-m-d (m in 1..12), counted
\* from 1970-01-01: new Date("y-m-d") is midnight UTC of that day.
DaysFromCivil(y, m, d) ==
    LET yy  == IF m <= 2 THEN y - 1 ELSE y
        era == yy \div 400
        yoe == yy - era * 400
        mp  == IF m > 2 THEN m - 3 ELSE m + 9
        doy == (153 * mp + 2) \div 5 + d - 1
        doe == yoe * 365 + yoe \div 4 - yoe \div 100 + doy
    IN  era * 146097 + doe - 719468

\* getFullYear / getMonth (0-based) / getDate of a day number.
CivilFromDays(z) ==
    LET zz  == z + 719468
        era == zz \div 146097
        doe == zz - era * 146097
        yoe == (doe - doe \div 1460 + doe \div 36524 - doe \div 146096) \div 365
        doy == doe - (365 * yoe + yoe \div 4 - yoe \div 100)
        mp  == (5 * doy + 2) \div 153
        d   == doy - (153 * mp + 2) \div 5 + 1
        m   == IF mp < 10 THEN mp + 3 ELSE mp - 9
        y   == yoe + era * 400 + (IF m <= 2 THEN 1 ELSE 0)
    IN  [year |-> y, month |-> m - 1, date |-> d]

\* MakeDay of ECMAScript: month is 0-based and may exceed 11, date may exceed
\* the month's length; both overflow into the following months.
MakeDay(year, month, date) ==
    DaysFromCivil(year + month \div 12, (month % 12) + 1, 1) + date - 1

\* The local calendar day on which midnight UTC of a day falls: the same day
\* at or east of Greenwich, the day before west of it.  The local time of day
\* is kept by every setter, so the way back subtracts the same shift.
LocalDayShift == tz \div 24

calculateNextExpectedDate(lastDate, frequency) ==
    LET date == CivilFromDays(lastDate + LocalDayShift)
        next == CASE frequency = "weekly" ->
                        MakeDay(date.year, date.month, date.date + 7)
                  [] frequency = "monthly" ->
                        MakeDay(date.year, date.month + 1, date.date)
                  [] frequency = "quarterly" ->
                        MakeDay(date.year, date.month + 3, date.date)
                  [] frequency = "yearly" ->
                        MakeDay(date.year + 1, date.month, date.date)
    IN  next - LocalDayShift

-----------------------------------------------------------------------------
(* Pattern analyzer *)

\* analyzePattern's null result.
Null == [null |-> TRUE]

\* determineFrequency's null frequency.
NullFrequency == "null"

RECURSIVE InsertSorted(_, _, _)
\* Index x placed after every index whose key is not greater: the step of a
\* stable sort (Array.prototype.sort is stable).
InsertSorted(sorted, x, key) ==
    IF sorted = <<>> THEN <<x>>
    ELSE IF key[x] < key[Head(sorted)] THEN <<x>> \o sorted
    ELSE <<Head(sorted)>> \o InsertSorted(Tail(sorted), x, key)

RECURSIVE SortedIndices(_, _)
\* The indices 1..n in ascending order of key, equal keys in index order.
SortedIndices(n, key) ==
    IF n = 0 THEN <<>>
    ELSE InsertSorted(SortedIndices(n - 1, key), n, key)

\* s sorted by a comparator (a, b) => key(a) - key(b).
StableSort(s, key) ==
    LET idx == SortedIndices(Len(s), key)
    IN  [i \in DOMAIN s |-> s[idx[i]]]

\* sort((a, b) => new Date(a.date).getTime() - new Date(b.date).getTime())
SortByDate(s) == StableSort(s, [i \in DOMAIN s |-> s[i].date])

\* Variant: the patterns are returned in the order they were accepted.
SortByConfidenceOmitted(s) == s

\* sort((a, b) => b.confidence - a.confidence)
SortByConfidenceDesc(s) == StableSort(s, [i \in DOMAIN s |-> -s[i].confidence])

\* frequencyConfidence = Math.max(0, 1 - Math.abs(avgInterval - centre) / centre)
\* for avgInterval = sum / n.
frequencyConfidence(sum, n, centre) ==
    LET fc == Rat(centre * n - Abs(sum - centre * n), centre * n)
    IN  IF fc.num < 0 THEN Zero ELSE fc

\* Variant: the monthly band is 30 days +/- 5, that is [25, 35].
FrequencyBandsMonthlyFrom25 ==
    << [frequency |-> "weekly",    low |-> 6,   high |-> 8,   centre |-> 7],
       [frequency |-> "monthly",   low |-> 25,  high |-> 35,  centre |-> 30],
       [frequency |-> "quarterly", low |-> 85,  high |-> 95,  centre |-> 90],
       [frequency |-> "yearly",    low |-> 360, high |-> 370, centre |-> 365] >>

FrequencyBands ==
    << [frequency |-> "weekly",    low |-> 6,   high |-> 8,   centre |-> 7],
       [frequency |-> "monthly",   low |-> 28,  high |-> 35,  centre |-> 30],
       [frequency |-> "quarterly", low |-> 85,  high |-> 95,  centre |-> 90],
       [frequency |-> "yearly",    low |-> 360, high |-> 370, centre |-> 365] >>

\* avgInterval >= low && avgInterval <= high, for avgInterval = sum / n.
InBand(sum, n, band) == sum >= band.low * n /\ sum <= band.high * n

\* consistencyScore = Math.max(0, 1 - standardDeviation / avgInterval), in
\* hundredths.  With d = n * sumSquares - sum^2 (n^2 times the variance),
\* standardDeviation / avgInterval = sqrt(d) / sum; the ratio is rounded down
\* to a hundredth.  For sum = 0 the ratio is 0/0.
consistencyScore(sum, n, sumSquares) ==
    LET d == n * sumSquares - sum * sum
    IN  IF sum = 0 THEN NaN
        ELSE IF d >= sum * sum THEN 0
        ELSE Max(0, 100 - FloorSqrt(10000 * d) \div sum)

\* Returns frequency (or NullFrequency) and the confidence in thousandths.
determineFrequency(intervals) ==
    IF Len(intervals) = 0 THEN [frequency |-> NullFrequency, confidence |-> 0]
    ELSE
    LET n          == Len(intervals)
        sum        == SumSeq(intervals)
        sumSquares == SumSeq([i \in DOMAIN intervals |-> intervals[i] * intervals[i]])
        matching   == {k \in DOMAIN FrequencyBands : InBand(sum, n, FrequencyBands[k])}
    IN  IF matching = {} THEN [frequency |-> NullFrequency, confidence |-> 0]
        ELSE LET band == FrequencyBands[CHOOSE k \in matching : \A l \in matching : k <= l]
                 fc   == frequencyConfidence(sum, n, band.centre)
             IN  [frequency  |-> band.frequency,
                  \* consistencyScore * 0.6 + frequencyConfidence * 0.4
                  confidence |-> consistencyScore(sum, n, sumSquares) * 6
                                   + (400 * fc.num) \div fc.den]

\* Variant: patterns are accepted from a confidence of 0.95.
ConfidenceGateStrict == 1000 - 50

\* Variant: patterns are accepted from a confidence of 0.5.
ConfidenceGateHalf == 1000 \div 2

\* The literal 0.6 of analyzePattern and detectPatterns, in thousandths.
ConfidenceGate == 600

\* Variant: description and category are those of the earliest record of the
\* cluster.
analyzePatternOfEarliest(baseExpense, similarExpenses, id) ==
    IF Len(similarExpenses) < MIN_OCCURRENCES THEN Null
    ELSE
    LET sortedExpenses == SortByDate(similarExpenses)
        intervals == [i \in 1..(Len(sortedExpenses) - 1) |->
                         sortedExpenses[i + 1].date - sortedExpenses[i].date]
        df == determineFrequency(intervals)
    IN  IF df.frequency = NullFrequency \/ df.confidence < ConfidenceGate THEN Null
        ELSE
        LET lastExpense == sortedExpenses[Len(sortedExpenses)]
        IN  [id               |-> id,
             description      |-> sortedExpenses[1].description,
             category         |-> sortedExpenses[1].category,
             averageAmount    |-> Rat(SumSeq([i \in DOMAIN sortedExpenses |->
                                                sortedExpenses[i].amount]),
                                      Len(sortedExpenses)),
             frequency        |-> df.frequency,
             confidence       |-> df.confidence,
             expenseIds       |-> [i \in DOMAIN sortedExpenses |-> sortedExpenses[i].id],
             lastOccurrence   |-> lastExpense.date,
             nextExpectedDate |-> calculateNextExpectedDate(lastExpense.date, df.frequency),
             isConfirmed      |-> FALSE]

\* id is the freshly generated pattern id.
analyzePattern(baseExpense, similarExpenses, id) ==
    IF Len(similarExpenses) < MIN_OCCURRENCES THEN Null
    ELSE
    LET sortedExpenses == SortByDate(similarExpenses)
        intervals == [i \in 1..(Len(sortedExpenses) - 1) |->
                         sortedExpenses[i + 1].date - sortedExpenses[i].date]
        df == determineFrequency(intervals)
    IN  IF df.frequency = NullFrequency \/ df.confidence < ConfidenceGate THEN Null
        ELSE
        LET lastExpense == sortedExpenses[Len(sortedExpenses)]
        IN  [id               |-> id,
             description      |-> baseExpense.description,
             category         |-> baseExpense.category,
             averageAmount    |-> Rat(SumSeq([i \in DOMAIN sortedExpenses |->
                                                sortedExpenses[i].amount]),
                                      Len(sortedExpenses)),
             frequency        |-> df.frequency,
             confidence       |-> df.confidence,
             \* similarExpenses was sorted in place
             expenseIds       |-> [i \in DOMAIN sortedExpenses |-> sortedExpenses[i].id],
             lastOccurrence   |-> lastExpense.date,
             nextExpectedDate |-> calculateNextExpectedDate(lastExpense.date, df.frequency),
             isConfirmed      |-> FALSE]

-----------------------------------------------------------------------------
(* Pattern detector *)

\* Variant: the processed set survives from the previous call.
ProcessedSetKept == UNION {Range(p.expenseIds) : p \in Range(detected)}

\* const processedExpenses = new Set<string>()
NewProcessedSet == {}

RECURSIVE detectLoopMarkingRejected(_, _, _, _, _)
\* Variant: the members of a cluster that gave no pattern are marked as
\* processed too.
detectLoopMarkingRejected(sortedExpenses, i, patterns, processedExpenses, id) ==
    IF i > Len(sortedExpenses) THEN patterns
    ELSE
    LET expense == sortedExpenses[i]
    IN  IF expense.id \in processedExpenses
        THEN detectLoopMarkingRejected(sortedExpenses, i + 1, patterns,
                                       processedExpenses, id)
        ELSE
        LET similarExpenses == findSimilarExpenses(expense, sortedExpenses)
            pattern == IF Len(similarExpenses) >= MIN_OCCURRENCES
                       THEN analyzePattern(expense, similarExpenses, id)
                       ELSE Null
            marked  == processedExpenses \cup {e.id : e \in Range(similarExpenses)}
        IN  IF pattern # Null /\ pattern.confidence >= ConfidenceGate
            THEN detectLoopMarkingRejected(sortedExpenses, i + 1,
                                           Append(patterns, pattern), marked, id + 1)
            ELSE detectLoopMarkingRejected(sortedExpenses, i + 1, patterns, marked, id)

RECURSIVE detectLoop(_, _, _, _, _)
\* The for-loop of detectPatterns from element i on; patterns and
\* processedExpenses are the loop's two accumulators, id the next fresh id.
detectLoop(sortedExpenses, i, patterns, processedExpenses, id) ==
    IF i > Len(sortedExpenses) THEN patterns
    ELSE
    LET expense == sortedExpenses[i]
    IN  IF expense.id \in processedExpenses
        THEN detectLoop(sortedExpenses, i + 1, patterns, processedExpenses, id)
        ELSE
        LET similarExpenses == findSimilarExpenses(expense, sortedExpenses)
            pattern == IF Len(similarExpenses) >= MIN_OCCURRENCES
                       THEN analyzePattern(expense, similarExpenses, id)
                       ELSE Null
        IN  IF pattern # Null /\ pattern.confidence >= ConfidenceGate
            THEN detectLoop(sortedExpenses, i + 1, Append(patterns, pattern),
                            processedExpenses \cup {e.id : e \in Range(similarExpenses)},
                            id + 1)
            ELSE detectLoop(sortedExpenses, i + 1, patterns, processedExpenses, id)

\* Variant: the caller's array itself is sorted (expenses.sort without the
\* copy).
callerArraySortedInPlace(expenseList) == SortByDate(expenseList)

\* The caller's array after detectPatterns(expenses).  [...expenses] is a new
\* array; the sorts work on it and on the arrays filter makes from it, and no
\* field of a record is assigned to.
callerArrayAfterDetect(expenseList) == expenseList

detectPatterns(expenseList, id) ==
    SortByConfidenceDesc(
        detectLoop(SortByDate(expenseList), 1, <<>>, NewProcessedSet, id))

-----------------------------------------------------------------------------
(* Bounds and input universes *)

MaxExpenses == 4

MaxRuns == 2

MaxStrLen == 3

MaxIntervals == 2

\* Fixed-offset time zones of the runtime: west of, at, and east of Greenwich.
TimeZones == {-5, 0, 8}

\* What is recorded of an expense apart from its id and date.  The detector
\* reads no other field of an Expense (paymentMethod, isRecurring, ...).
Merchants ==
    { [description |-> Netflix,   amount |-> 1599, category |-> "entertainment"],
      [description |-> Netflix,   amount |-> 1695, category |-> "entertainment"],
      [description |-> Netflix,   amount |-> 1795, category |-> "entertainment"],
      [description |-> Groceries, amount |-> 8500, category |-> "food"] }

Dates ==
    { DaysFromCivil(2024, 1, 1), DaysFromCivil(2024, 1, 8),
      DaysFromCivil(2024, 2, 1), DaysFromCivil(2024, 3, 1) }

Expense(id, merchant, date) ==
    [id          |-> id,
     description |-> merchant.description,
     amount      |-> merchant.amount,
     category    |-> merchant.category,
     date        |-> date]

\* The end-to-end scenario: three Netflix records and one Groceries record,
\* in the order given.
EndToEndScenario ==
    LET n == [description |-> Netflix,   amount |-> 1599, category |-> "entertainment"]
        g == [description |-> Groceries, amount |-> 8500, category |-> "food"]
    IN  << Expense(1, n, DaysFromCivil(2024, 1, 1)),
           Expense(2, n, DaysFromCivil(2024, 2, 1)),
           Expense(3, n, DaysFromCivil(2024, 3, 1)),
           Expense(4, g, DaysFromCivil(2024, 1, 15)) >>

\* Expense lists of up to MaxExpenses records with ids 1..n, listed by date
\* (records of one date in any order), and the end-to-end scenario as given.
\* detectPatterns sorts by date before anything else, so every value its
\* sortedExpenses can take for these records is covered.
ExpenseLists ==
    { [i \in 1..n |-> Expense(i, ms[i], ds[i])] :
        <<n, ms, ds>> \in
            UNION { {n} \X [1..n -> Merchants]
                        \X {ds \in [1..n -> Dates] :
                               \A i \in 1..(n - 1) : ds[i] <= ds[i + 1]}
                    : n \in 0..MaxExpenses } }
    \cup {EndToEndScenario}

NoCall == [op |-> "none", done |-> TRUE]

-----------------------------------------------------------------------------
(* The detector called on an expense history *)

InitDetect ==
    /\ tz \in TimeZones
    /\ expenses \in ExpenseLists
    /\ detected = <<>>
    /\ prevDetected = <<>>
    /\ runs = 0
    /\ nextId = 1
    /\ call = NoCall
    /\ store = Null
    /\ dismissed = {}

\* RecurringExpenseDetector.detectPatterns(expenses), each accepted pattern
\* taking the next fresh id.
Detect ==
    /\ runs < MaxRuns
    /\ detected' = detectPatterns(expenses, nextId)
    /\ prevDetected' = detected
    /\ runs' = runs + 1
    /\ nextId' = nextId + Len(detected')
    /\ expenses' = callerArrayAfterDetect(expenses)
    /\ UNCHANGED <<tz, call, store, dismissed>>

NextDetect == Detect

SpecDetect == InitDetect /\ [][NextDetect]_vars

-----------------------------------------------------------------------------
(* The detector called once on histories that mix spellings *)

MaxSeedExpenses == 3

\* The merchants of the histories and Netflix in lower case, which is similar
\* to Netflix and has another description.
SeedMerchants ==
    Merchants \cup
        { [description |-> netflix, amount |-> 1599, category |-> "entertainment"] }

\* Expense lists of up to MaxSeedExpenses records with ids 1..n, listed by
\* date (records of one date in any order).
SeedExpenseLists ==
    { [i \in 1..n |-> Expense(i, ms[i], ds[i])] :
        <<n, ms, ds>> \in
            UNION { {n} \X [1..n -> SeedMerchants]
                        \X {ds \in [1..n -> Dates] :
                               \A i \in 1..(n - 1) : ds[i] <= ds[i + 1]}
                    : n \in 0..MaxSeedExpenses } }

InitSeeds ==
    /\ tz \in TimeZones
    /\ expenses \in SeedExpenseLists
    /\ detected = <<>>
    /\ prevDetected = <<>>
    /\ runs = 0
    /\ nextId = 1
    /\ call = NoCall
    /\ store = Null
    /\ dismissed = {}

\* The first call of detectPatterns on the history.
DetectOnce == runs = 0 /\ Detect

NextSeeds == DetectOnce

SpecSeeds == InitSeeds /\ [][NextSeeds]_vars

-----------------------------------------------------------------------------
(* The pattern store: RecurringExpenseManager and the detection effect of   *)
(* the RecurringExpensePatterns component                                   *)

\* JSON.stringify of a pattern list.  Every field of a pattern is a string,
\* a finite number, a boolean or an array of strings, so the text determines
\* the list; the text is kept as the list it encodes.
JSONstringify(value) == [json |-> value]

\* JSON.parse of a stored text that is JSON: the list a text written by
\* savePatterns encodes; for another JSON text (an object, null) its value,
\* which is not an array.
JSONparse(text) ==
    IF "json" \in DOMAIN text THEN text.json ELSE [value |-> text.text]

\* RecurringExpenseManager.loadPatterns(), storage working:
\* stored ? JSON.parse(stored) : []
loadPatterns == IF store = Null THEN <<>> ELSE JSONparse(store)

\* RecurringExpenseManager.savePatterns(patterns), storage working: the
\* item after localStorage.setItem(STORAGE_KEY, JSON.stringify(patterns)).
savePatterns(patterns) == JSONstringify(patterns)

\* Math.abs(existing.averageAmount - newPattern.averageAmount) < 1, the
\* amounts being rationals in cents.
averageAmountsWithinOne(a, b) ==
    Abs(a.num * b.den - b.num * a.den) < 100 * a.den * b.den

\* Variant: the category is not compared.
existsIgnoringCategory(existingPatterns, newPattern) ==
    \E i \in DOMAIN existingPatterns :
        /\ existingPatterns[i].description = newPattern.description
        /\ averageAmountsWithinOne(existingPatterns[i].averageAmount,
                                   newPattern.averageAmount)

\* existingPatterns.some(existing => ...)
exists(existingPatterns, newPattern) ==
    \E i \in DOMAIN existingPatterns :
        /\ existingPatterns[i].description = newPattern.description
        /\ existingPatterns[i].category = newPattern.category
        /\ averageAmountsWithinOne(existingPatterns[i].averageAmount,
                                   newPattern.averageAmount)

\* Variant: detected patterns are stored only while nothing is stored.
mergeDetectedIntoEmpty(existingPatterns, detectedPatterns) ==
    IF existingPatterns = <<>> THEN detectedPatterns ELSE existingPatterns

\* Variant: a detected pattern is a duplicate when its id is stored already.
mergeDetectedById(existingPatterns, detectedPatterns) ==
    LET NotStored(newPattern) ==
            \A i \in DOMAIN existingPatterns : existingPatterns[i].id # newPattern.id
    IN  existingPatterns \o SelectSeq(detectedPatterns, NotStored)

\* Variant: the detected patterns replace the stored ones.
mergeDetectedOnly(existingPatterns, detectedPatterns) == detectedPatterns

\* allPatterns of the detection effect: the existing patterns, then every
\* detected pattern that no existing pattern matches.
mergeDetected(existingPatterns, detectedPatterns) ==
    LET NotExists(newPattern) == ~exists(existingPatterns, newPattern)
    IN  existingPatterns \o SelectSeq(detectedPatterns, NotExists)

\* patterns.find(p => p.id === patternId): the index of the first match, 0
\* for undefined.
find(patterns, patternId) ==
    IF \E i \in DOMAIN patterns : patterns[i].id = patternId
    THEN CHOOSE i \in DOMAIN patterns :
             /\ patterns[i].id = patternId
             /\ \A j \in 1..(i - 1) : patterns[j].id # patternId
    ELSE 0

\* The call just made, the list that was stored before it, and the call
\* before it.
StoreCall(op, args) ==
    [op     |-> op,
     args   |-> args,
     done   |-> TRUE,
     before |-> loadPatterns,
     prev   |-> [op |-> call.op, args |-> call.args, before |-> call.before]]

NoStoreCall ==
    [op     |-> "none",
     args   |-> <<>>,
     done   |-> TRUE,
     before |-> <<>>,
     prev   |-> [op |-> "none", args |-> <<>>, before |-> <<>>]]

MaxStoreOps == 4

\* Variant: the ids of an earlier run are issued again.
DetectPatternsEffectReusingIds(newExpenses) ==
    LET existingPatterns == loadPatterns
        detectedPatterns == detectPatterns(newExpenses, 1)
        allPatterns      == mergeDetected(existingPatterns, detectedPatterns)
    IN  /\ runs < MaxStoreOps
        /\ expenses' = callerArrayAfterDetect(newExpenses)
        /\ prevDetected' = detected
        /\ detected' = detectedPatterns
        /\ nextId' = Max(nextId, 1 + Len(detectedPatterns))
        /\ store' = savePatterns(allPatterns)
        /\ call' = StoreCall("detectPatterns", <<newExpenses>>)
        /\ runs' = runs + 1
        /\ UNCHANGED <<tz, dismissed>>

\* The detection effect of the component (it runs on mount and whenever the
\* expenses prop changes): load, detect, merge, save.  setIsDetecting and
\* setPatterns change only what the component displays.
DetectPatternsEffect(newExpenses) ==
    LET existingPatterns == loadPatterns
        detectedPatterns == detectPatterns(newExpenses, nextId)
        allPatterns      == mergeDetected(existingPatterns, detectedPatterns)
    IN  /\ runs < MaxStoreOps
        /\ expenses' = callerArrayAfterDetect(newExpenses)
        /\ prevDetected' = detected
        /\ detected' = detectedPatterns
        /\ nextId' = nextId + Len(detectedPatterns)
        /\ store' = savePatterns(allPatterns)
        /\ call' = StoreCall("detectPatterns", <<newExpenses>>)
        /\ runs' = runs + 1
        /\ UNCHANGED <<tz, dismissed>>

\* Variant: every stored pattern is confirmed once the id is found.
ConfirmPatternAll(patternId) ==
    LET patterns == loadPatterns
        pattern  == find(patterns, patternId)
    IN  /\ runs < MaxStoreOps
        /\ store' = IF pattern # 0
                    THEN savePatterns([i \in DOMAIN patterns |->
                                          [patterns[i] EXCEPT !.isConfirmed = TRUE]])
                    ELSE store
        /\ call' = StoreCall("confirmPattern", <<patternId>>)
        /\ runs' = runs + 1
        /\ UNCHANGED <<tz, expenses, detected, prevDetected, nextId, dismissed>>

\* RecurringExpenseManager.confirmPattern(patternId)
ConfirmPattern(patternId) ==
    LET patterns == loadPatterns
        pattern  == find(patterns, patternId)
    IN  /\ runs < MaxStoreOps
        /\ store' = IF pattern # 0
                    THEN savePatterns([patterns EXCEPT ![pattern].isConfirmed = TRUE])
                    ELSE store
        /\ call' = StoreCall("confirmPattern", <<patternId>>)
        /\ runs' = runs + 1
        /\ UNCHANGED <<tz, expenses, detected, prevDetected, nextId, dismissed>>

\* Variant: a confirmed pattern is not removed.
DismissPatternUnlessConfirmed(patternId) ==
    LET patterns == loadPatterns
        Kept(p)  == p.id # patternId \/ p.isConfirmed
        updatedPatterns == SelectSeq(patterns, Kept)
    IN  /\ runs < MaxStoreOps
        /\ store' = savePatterns(updatedPatterns)
        /\ dismissed' = IF find(updatedPatterns, patternId) = 0
                           /\ find(patterns, patternId) # 0
                        THEN dismissed \cup {patternId}
                        ELSE dismissed
        /\ call' = StoreCall("dismissPattern", <<patternId>>)
        /\ runs' = runs + 1
        /\ UNCHANGED <<tz, expenses, detected, prevDetected, nextId>>

\* RecurringExpenseManager.dismissPattern(patternId)
DismissPattern(patternId) ==
    LET patterns == loadPatterns
        Kept(p)  == p.id # patternId
        updatedPatterns == SelectSeq(patterns, Kept)
    IN  /\ runs < MaxStoreOps
        /\ store' = savePatterns(updatedPatterns)
        /\ dismissed' = IF find(patterns, patternId) # 0
                        THEN dismissed \cup {patternId}
                        ELSE dismissed
        /\ call' = StoreCall("dismissPattern", <<patternId>>)
        /\ runs' = runs + 1
        /\ UNCHANGED <<tz, expenses, detected, prevDetected, nextId>>

\* RecurringExpenseManager.updatePatternAfterExpense(patternId, newExpenseDate)
UpdatePatternAfterExpense(patternId, newExpenseDate) ==
    LET patterns == loadPatterns
        pattern  == find(patterns, patternId)
    IN  /\ runs < MaxStoreOps
        /\ store' = IF pattern # 0
                    THEN savePatterns(
                             [patterns EXCEPT
                                 ![pattern].lastOccurrence = newExpenseDate,
                                 ![pattern].nextExpectedDate =
                                     calculateNextExpectedDate(
                                         newExpenseDate, patterns[pattern].frequency)])
                    ELSE store
        /\ call' = StoreCall("updatePatternAfterExpense", <<patternId, newExpenseDate>>)
        /\ runs' = runs + 1
        /\ UNCHANGED <<tz, expenses, detected, prevDetected, nextId, dismissed>>

\* Expense histories the component is given, one after the other, in any
\* order: none; two monthly Netflix records; two monthly Groceries records and
\* the same history grown by a dearer third; Netflix at three rising prices;
\* two monthly Netflix records with two weekly Groceries records.
StoreHistories ==
    LET n15 == [description |-> Netflix,   amount |-> 1599, category |-> "entertainment"]
        n16 == [description |-> Netflix,   amount |-> 1695, category |-> "entertainment"]
        n17 == [description |-> Netflix,   amount |-> 1795, category |-> "entertainment"]
        g85 == [description |-> Groceries, amount |-> 8500, category |-> "food"]
        g93 == [description |-> Groceries, amount |-> 9300, category |-> "food"]
        jan1 == DaysFromCivil(2024, 1, 1)
        jan8 == DaysFromCivil(2024, 1, 8)
        feb1 == DaysFromCivil(2024, 2, 1)
        mar1 == DaysFromCivil(2024, 3, 1)
    IN  { <<>>,
          <<Expense(1, n15, jan1), Expense(2, n15, feb1)>>,
          <<Expense(4, g85, jan1), Expense(5, g85, feb1)>>,
          <<Expense(4, g85, jan1), Expense(5, g85, feb1), Expense(6, g93, mar1)>>,
          <<Expense(1, n15, jan1), Expense(7, n16, feb1), Expense(8, n17, mar1)>>,
          <<Expense(1, n15, jan1), Expense(2, n15, feb1),
            Expense(4, g85, jan1), Expense(9, g85, jan8)>> }

\* Dates of the new expense passed to updatePatternAfterExpense.
NewExpenseDates == {DaysFromCivil(2024, 4, 1)}

\* Ids passed to the manager: every id issued so far and one never issued.
PatternIds == 1..nextId

InitStore ==
    /\ tz \in TimeZones
    /\ expenses = <<>>
    /\ detected = <<>>
    /\ prevDetected = <<>>
    /\ runs = 0
    /\ nextId = 1
    /\ call = NoStoreCall
    /\ store = Null
    /\ dismissed = {}

NextStore ==
    \/ \E newExpenses \in StoreHistories : DetectPatternsEffect(newExpenses)
    \/ \E patternId \in PatternIds : ConfirmPattern(patternId)
    \/ \E patternId \in PatternIds : DismissPattern(patternId)
    \/ \E patternId \in PatternIds, newExpenseDate \in NewExpenseDates :
           UpdatePatternAfterExpense(patternId, newExpenseDate)

SpecStore == InitStore /\ [][NextStore]_vars

-----------------------------------------------------------------------------
(* Upcoming recurring expenses *)

\* new Date(isoString).getTime() in hours since the epoch; a stored date is
\* the instant 00:00 UTC of its day.
getTime(date) == date * 24

\* Math.ceil(hours / 24).  (Math.ceil gives -0 for a value in (-1, 0), and
\* -0 < 0 is false, as for the integer 0.)
ceilDays(hours) == -((-hours) \div 24)

\* Variant: the entries stay in the order of the stored list.
SortByDaysUntilDueOmitted(s) == s

\* sort((a, b) => a.daysUntilDue - b.daysUntilDue)
SortByDaysUntilDue(s) == StableSort(s, [i \in DOMAIN s |-> s[i].daysUntilDue])

\* getUpcomingRecurringExpenses(patterns), with today = new Date() the
\* instant of the call in hours since the epoch.
getUpcomingRecurringExpenses(patterns, today) ==
    LET Confirmed(pattern) == pattern.isConfirmed
        confirmed == SelectSeq(patterns, Confirmed)
        daysUntilDue(pattern) ==
            ceilDays(getTime(pattern.nextExpectedDate) - today)
    IN  SortByDaysUntilDue(
            [i \in DOMAIN confirmed |->
                [pattern      |-> confirmed[i],
                 daysUntilDue |-> daysUntilDue(confirmed[i]),
                 isOverdue    |-> daysUntilDue(confirmed[i]) < 0]])

-----------------------------------------------------------------------------
(* The similarity engine and the analyzer called on their own *)

MaxSmallAmount == 12

Alphabet == {"a", "b"}

\* Every string over Alphabet of up to MaxStrLen characters, and two
\* descriptions one substitution apart.
StringSamples ==
    UNION { [1..n -> Alphabet] : n \in 0..MaxStrLen } \cup {netflix, netflex}

\* Amounts in cents: every small amount, the amounts of Merchants, and pairs
\* at and next to the boundary of the tolerance.
AmountSamples ==
    (1..MaxSmallAmount)
        \cup {37, 43, 1599, 1695, 1795, 8500, 9250, 10000, 10750, 11499, 11500}

SimilarityMerchants ==
    [description : KnownDescriptions,
     amount      : {1599, 1695, 1795, 1899, 2100, 8500},
     category    : {"entertainment", "food"}]

\* Day differences inside, at the edges of and outside the frequency bands.
IntervalSamples ==
    {0, 5, 6, 7, 8, 9, 27, 28, 30, 35, 36, 45, 84, 85, 90, 95, 96,
     359, 360, 365, 370, 371}

IntervalLists == UNION { [1..n -> IntervalSamples] : n \in 1..MaxIntervals }

RECURSIVE ClusterDates(_, _)
\* The dates of a cluster whose consecutive distances are the intervals.
ClusterDates(first, intervals) ==
    IF intervals = <<>> THEN <<first>>
    ELSE <<first>> \o ClusterDates(first + Head(intervals), Tail(intervals))

\* A cluster of equal Netflix records with the given intervals between them.
ClusterOf(intervals) ==
    LET ds == ClusterDates(DaysFromCivil(2024, 1, 1), intervals)
    IN  [i \in DOMAIN ds |->
            Expense(i, [description |-> Netflix, amount |-> 1599,
                        category |-> "entertainment"], ds[i])]

\* Five similar records, two of them on the first day and differing in the
\* case of the description, the others following at 9-day intervals.
TiedRecords ==
    LET upper == [description |-> Netflix, amount |-> 1599, category |-> "entertainment"]
        lower == [description |-> netflix, amount |-> 1599, category |-> "entertainment"]
    IN  << Expense(1, upper, DaysFromCivil(2024, 1, 1)),
           Expense(2, lower, DaysFromCivil(2024, 1, 1)),
           Expense(3, upper, DaysFromCivil(2024, 1, 10)),
           Expense(4, upper, DaysFromCivil(2024, 1, 19)),
           Expense(5, upper, DaysFromCivil(2024, 1, 28)) >>

\* The records of a list in every order.
Orderings(list) ==
    { [i \in DOMAIN list |-> list[p[i]]] : p \in Permutations(DOMAIN list) }

OrderedInputs == Orderings(EndToEndScenario) \cup Orderings(TiedRecords)

\* A stored or detected pattern of the given description, category, average
\* amount (in cents) and confirmation.
SamplePattern(id, description, category, averageAmount, isConfirmed) ==
    [id               |-> id,
     description      |-> description,
     category         |-> category,
     averageAmount    |-> Rat(averageAmount, 1),
     frequency        |-> "monthly",
     confidence       |-> 1000,
     expenseIds       |-> <<1, 2>>,
     lastOccurrence   |-> DaysFromCivil(2024, 2, 1),
     nextExpectedDate |-> DaysFromCivil(2024, 3, 1),
     isConfirmed      |-> isConfirmed]

\* The lists of at most two different members of a set.
ListsUpToTwo(S) ==
    {<<>>} \cup {<<x>> : x \in S}
           \cup {<<x, y>> : <<x, y>> \in {z \in S \X S : z[1] # z[2]}}

ExistingSamples ==
    ListsUpToTwo({ SamplePattern(1, Netflix, "entertainment", 1599, TRUE),
                   SamplePattern(2, Netflix, "food", 1599, FALSE),
                   SamplePattern(3, Groceries, "food", 8500, FALSE) })

DetectedSamples ==
    ListsUpToTwo({ SamplePattern(4, Netflix, "entertainment", 1550, FALSE),
                   SamplePattern(5, Netflix, "entertainment", 1698, FALSE),
                   SamplePattern(6, Netflix, "entertainment", 1700, FALSE),
                   SamplePattern(7, netflix, "entertainment", 1599, FALSE),
                   SamplePattern(8, Groceries, "food", 8500, FALSE) })

\* The day of the calls of getUpcomingRecurringExpenses and the instants of
\* that day at which it is called, in hours since the epoch.
Today == DaysFromCivil(2024, 3, 10)

TodaySamples == {getTime(Today) + h : h \in {0, 9, 23}}

\* A stored Netflix pattern expected again daysFromToday days after Today.
DuePattern(id, daysFromToday, isConfirmed) ==
    [SamplePattern(id, Netflix, "entertainment", 1599, isConfirmed)
        EXCEPT !.nextExpectedDate = Today + daysFromToday]

\* Confirmed patterns due 3 days ago, today, tomorrow and in 5 days, and
\* unconfirmed ones due yesterday and in 5 days.
UpcomingSamples ==
    ListsUpToTwo({ DuePattern(1, -3, TRUE), DuePattern(2, 5, TRUE),
                   DuePattern(3, -1, FALSE), DuePattern(4, 0, TRUE),
                   DuePattern(5, 1, TRUE), DuePattern(6, 5, FALSE) })

PureCall(op, args) == [op |-> op, args |-> args, done |-> FALSE, result |-> Null]

PureCalls ==
    {PureCall("calculateStringSimilarity", a) : a \in StringSamples \X StringSamples}
    \cup {PureCall("calculateAmountSimilarity", a) : a \in AmountSamples \X AmountSamples}
    \cup {PureCall("findSimilarExpenses",
                   <<Expense(1, a[1], DaysFromCivil(2024, 1, 1)),
                     Expense(2, a[2], DaysFromCivil(2024, 2, 1))>>) :
             a \in SimilarityMerchants \X SimilarityMerchants}
    \cup {PureCall("determineFrequency", a) : a \in IntervalLists}
    \cup {PureCall("analyzePattern", ClusterOf(a)) : a \in IntervalLists}
    \cup {PureCall("detectPatterns", a) : a \in OrderedInputs}
    \cup {PureCall("mergeDetected", a) : a \in ExistingSamples \X DetectedSamples}
    \cup {PureCall("getUpcomingRecurringExpenses", a) :
             a \in UpcomingSamples \X TodaySamples}

InitPure ==
    /\ tz \in TimeZones
    /\ expenses = <<>>
    /\ detected = <<>>
    /\ prevDetected = <<>>
    /\ runs = 0
    /\ nextId = 1
    /\ call \in PureCalls
    /\ store = Null
    /\ dismissed = {}

Return(op, value) ==
    /\ call.op = op
    /\ ~call.done
    /\ call' = [call EXCEPT !.done = TRUE, !.result = value]
    /\ UNCHANGED <<tz, expenses, detected, prevDetected, runs, nextId, store, dismissed>>

ApplyStringSimilarity ==
    Return("calculateStringSimilarity",
           calculateStringSimilarity(call.args[1], call.args[2]))

ApplyAmountSimilarity ==
    Return("calculateAmountSimilarity",
           calculateAmountSimilarity(call.args[1], call.args[2]))

\* The cluster of the first record among the two.
ApplyFindSimilarExpenses ==
    Return("findSimilarExpenses", findSimilarExpenses(call.args[1], call.args))

ApplyDetermineFrequency ==
    Return("determineFrequency", determineFrequency(call.args))

ApplyAnalyzePattern ==
    Return("analyzePattern", analyzePattern(call.args[1], call.args, nextId))

ApplyDetectPatterns ==
    Return("detectPatterns", detectPatterns(call.args, nextId))

ApplyMergeDetected ==
    Return("mergeDetected", mergeDetected(call.args[1], call.args[2]))

ApplyGetUpcomingRecurringExpenses ==
    Return("getUpcomingRecurringExpenses",
           getUpcomingRecurringExpenses(call.args[1], call.args[2]))

NextPure ==
    \/ ApplyStringSimilarity
    \/ ApplyAmountSimilarity
    \/ ApplyFindSimilarExpenses
    \/ ApplyDetermineFrequency
    \/ ApplyAnalyzePattern
    \/ ApplyDetectPatterns
    \/ ApplyMergeDetected
    \/ ApplyGetUpcomingRecurringExpenses

SpecPure == InitPure /\ [][NextPure]_vars

-----------------------------------------------------------------------------
(* The pattern store on failing storage and on items it did not write *)

\* The empty string is falsy in  stored ? JSON.parse(stored) : [] .
EmptyText == [text |-> ""]

\* Stored texts that are JSON but not the JSON of a list.
NonListJSONTexts == {"{}", "null"}

\* JSON.parse(text) throws a SyntaxError.
JSONparseThrows(text) ==
    "text" \in DOMAIN text /\ text.text \notin NonListJSONTexts

\* RecurringExpenseManager.loadPatterns() with its try/catch, where
\* localStorage.getItem may throw.
loadPatternsWhen(getItemThrows) ==
    IF getItemThrows THEN <<>>
    ELSE IF store = Null \/ store = EmptyText THEN <<>>
    ELSE IF JSONparseThrows(store) THEN <<>>
    ELSE JSONparse(store)

\* Array.isArray of what loadPatterns returns.
loadedIsArray(getItemThrows) ==
    \/ getItemThrows
    \/ store = Null
    \/ store = EmptyText
    \/ JSONparseThrows(store)
    \/ "json" \in DOMAIN store

\* Variant: a write that fails removes the item.
savePatternsWhenLosingItem(patterns, setItemThrows) ==
    IF setItemThrows THEN Null ELSE JSONstringify(patterns)

\* RecurringExpenseManager.savePatterns(patterns) with its try/catch, where
\* localStorage.setItem may throw: the item afterwards.  A setItem that
\* throws has stored nothing.
savePatternsWhen(patterns, setItemThrows) ==
    IF setItemThrows THEN store ELSE JSONstringify(patterns)

\* What a call of the manager leaves: whether it raised to its caller, what
\* it returned, and the stored item.
Outcome(threw, result, item) == [threw |-> threw, result |-> result, item |-> item]

\* patterns.find and patterns.filter are not functions when the loaded value
\* is not an array (and null has no properties): a TypeError, which no
\* handler of the manager catches.
TypeError == Outcome(TRUE, Null, store)

confirmPatternWhen(patternId, getItemThrows, setItemThrows) ==
    LET patterns == loadPatternsWhen(getItemThrows)
        pattern  == find(patterns, patternId)
    IN  IF ~loadedIsArray(getItemThrows) THEN TypeError
        ELSE IF pattern # 0
        THEN Outcome(FALSE, Null,
                     savePatternsWhen([patterns EXCEPT ![pattern].isConfirmed = TRUE],
                                      setItemThrows))
        ELSE Outcome(FALSE, Null, store)

dismissPatternWhen(patternId, getItemThrows, setItemThrows) ==
    LET patterns == loadPatternsWhen(getItemThrows)
        Kept(p)  == p.id # patternId
    IN  IF ~loadedIsArray(getItemThrows) THEN TypeError
        ELSE Outcome(FALSE, Null,
                     savePatternsWhen(SelectSeq(patterns, Kept), setItemThrows))

updatePatternAfterExpenseWhen(patternId, newExpenseDate, getItemThrows, setItemThrows) ==
    LET patterns == loadPatternsWhen(getItemThrows)
        pattern  == find(patterns, patternId)
    IN  IF ~loadedIsArray(getItemThrows) THEN TypeError
        ELSE IF pattern # 0
        THEN Outcome(FALSE, Null,
                     savePatternsWhen(
                         [patterns EXCEPT
                             ![pattern].lastOccurrence = newExpenseDate,
                             ![pattern].nextExpectedDate =
                                 calculateNextExpectedDate(
                                     newExpenseDate, patterns[pattern].frequency)],
                         setItemThrows))
        ELSE Outcome(FALSE, Null, store)

MaxStorageOps == 2

\* Two stored patterns.
StoredNetflix == SamplePattern(1, Netflix, "entertainment", 1599, FALSE)

StoredGroceries == SamplePattern(2, Groceries, "food", 8500, TRUE)

\* The item under STORAGE_KEY when the manager is first called: none, the
\* empty text, a text that is not JSON, JSON texts of an object and of null,
\* and texts written by savePatterns.
StoredItems ==
    {Null, EmptyText, [text |-> "{oops"]}
        \cup {[text |-> t] : t \in NonListJSONTexts}
        \cup {JSONstringify(l) :
                l \in {<<>>, <<StoredNetflix>>, <<StoredNetflix, StoredGroceries>>}}

\* Ids passed to the manager: those of the stored patterns and another one.
StorageIds == {1, 2, 3}

\* The call just made, the faults of the storage during it, the item stored
\* before it, and its outcome.
StorageCall(op, args, getItemThrows, setItemThrows, outcome, isArray) ==
    [op            |-> op,
     args          |-> args,
     done          |-> TRUE,
     getItemThrows |-> getItemThrows,
     setItemThrows |-> setItemThrows,
     before        |-> store,
     threw         |-> outcome.threw,
     result        |-> outcome.result,
     isArray       |-> isArray]

InitStorage ==
    /\ tz \in TimeZones
    /\ expenses = <<>>
    /\ detected = <<>>
    /\ prevDetected = <<>>
    /\ runs = 0
    /\ nextId = 1
    /\ call = NoCall
    /\ store \in StoredItems
    /\ dismissed = {}

\* A call of the manager with the given outcome.
Called(c, outcome) ==
    /\ runs < MaxStorageOps
    /\ call' = c
    /\ store' = outcome.item
    /\ runs' = runs + 1
    /\ UNCHANGED <<tz, expenses, detected, prevDetected, nextId, dismissed>>

LoadPatternsCall(getItemThrows) ==
    LET outcome == Outcome(FALSE, loadPatternsWhen(getItemThrows), store)
    IN  Called(StorageCall("loadPatterns", <<>>, getItemThrows, FALSE, outcome,
                           loadedIsArray(getItemThrows)),
               outcome)

SavePatternsCall(patterns, setItemThrows) ==
    LET outcome == Outcome(FALSE, Null, savePatternsWhen(patterns, setItemThrows))
    IN  Called(StorageCall("savePatterns", <<patterns>>, FALSE, setItemThrows,
                           outcome, FALSE),
               outcome)

ConfirmPatternCall(patternId, getItemThrows, setItemThrows) ==
    LET outcome == confirmPatternWhen(patternId, getItemThrows, setItemThrows)
    IN  Called(StorageCall("confirmPattern", <<patternId>>, getItemThrows,
                           setItemThrows, outcome, FALSE),
               outcome)

DismissPatternCall(patternId, getItemThrows, setItemThrows) ==
    LET outcome == dismissPatternWhen(patternId, getItemThrows, setItemThrows)
    IN  Called(StorageCall("dismissPattern", <<patternId>>, getItemThrows,
                           setItemThrows, outcome, FALSE),
               outcome)

UpdatePatternAfterExpenseCall(patternId, newExpenseDate, getItemThrows, setItemThrows) ==
    LET outcome == updatePatternAfterExpenseWhen(patternId, newExpenseDate,
                                                 getItemThrows, setItemThrows)
    IN  Called(StorageCall("updatePatternAfterExpense", <<patternId, newExpenseDate>>,
                           getItemThrows, setItemThrows, outcome, FALSE),
               outcome)

NextStorage ==
    \/ \E getItemThrows \in BOOLEAN : LoadPatternsCall(getItemThrows)
    \/ \E patterns \in {<<>>, <<StoredGroceries>>}, setItemThrows \in BOOLEAN :
           SavePatternsCall(patterns, setItemThrows)
    \/ \E patternId \in StorageIds, getItemThrows, setItemThrows \in BOOLEAN :
           ConfirmPatternCall(patternId, getItemThrows, setItemThrows)
    \/ \E patternId \in StorageIds, getItemThrows, setItemThrows \in BOOLEAN :
           DismissPatternCall(patternId, getItemThrows, setItemThrows)
    \/ \E patternId \in StorageIds, newExpenseDate \in NewExpenseDates,
          getItemThrows, setItemThrows \in BOOLEAN :
           UpdatePatternAfterExpenseCall(patternId, newExpenseDate,
                                         getItemThrows, setItemThrows)

SpecStorage == InitStorage /\ [][NextStorage]_vars

-----------------------------------------------------------------------------
(* Properties *)

PatternsOf(list) == Range(list)

IdsOf(pattern) == Range(pattern.expenseIds)

\* The combined score 0.5 * s + 0.3 * m + 0.2 * c reaches 0.8, for a string
\* similarity s, an amount similarity m and c = 1 for equal categories.
ScoreReaches(s, m, c) ==
    5 * s.num * m.den + 3 * m.num * s.den + 2 * c * s.den * m.den
        >= 8 * s.den * m.den

\* The combined score of two records, as the specification words it.
RecordsScoreReaches(a, b) ==
    ScoreReaches(descriptionSimilarity(a.description, b.description),
                 calculateAmountSimilarity(a.amount, b.amount),
                 IF a.category = b.category THEN 1 ELSE 0)

\* C1: on the four-expense end-to-end scenario detectPatterns returns
\* exactly one pattern: Netflix, monthly, confidence >= 0.6, averageAmount
\* 15.99, nextExpectedDate 2024-04-01, expenseIds the three Netflix
\* records; the Groceries record is in no pattern.
C1_EndToEndScenario ==
    (expenses = EndToEndScenario /\ runs >= 1) =>
        /\ Len(detected) = 1
        /\ detected[1].description = Netflix
        /\ detected[1].frequency = "monthly"
        /\ detected[1].confidence >= 600
        /\ detected[1].averageAmount = Rat(1599, 1)
        /\ detected[1].nextExpectedDate = DaysFromCivil(2024, 4, 1)
        /\ IdsOf(detected[1]) = {1, 2, 3}
        /\ \A p \in PatternsOf(detected) : 4 \notin IdsOf(p)

\* C2: no expense id occurs in the expenseIds of two different patterns
\* returned by one detectPatterns call.
C2_ClustersDisjoint ==
    \A i, j \in DOMAIN detected :
        i # j => IdsOf(detected[i]) \cap IdsOf(detected[j]) = {}

\* C3: every returned pattern has at least 2 expenseIds, a frequency among
\* weekly/monthly/quarterly/yearly, a confidence in [0.6, 1] and isConfirmed
\* false; an expense similar to no other input expense is in no pattern.
C3_PatternWellFormed ==
    /\ \A p \in PatternsOf(detected) :
          /\ Len(p.expenseIds) >= 2
          /\ p.frequency \in {"weekly", "monthly", "quarterly", "yearly"}
          /\ p.confidence >= 600 /\ p.confidence <= 1000
          /\ p.isConfirmed = FALSE
    /\ \A i \in DOMAIN expenses :
          (\A j \in DOMAIN expenses :
               j # i => ~RecordsScoreReaches(expenses[i], expenses[j]))
          => \A p \in PatternsOf(detected) : expenses[i].id \notin IdsOf(p)

\* The detector has returned a pattern for a history that also holds an
\* expense similar to no other one.
C3_Witness ==
    /\ runs >= 1
    /\ detected # <<>>
    /\ \E i \in DOMAIN expenses :
          \A j \in DOMAIN expenses :
              j # i => ~RecordsScoreReaches(expenses[i], expenses[j])

\* C4: a record b is in the cluster of a record a exactly when the combined
\* score of a and b reaches 0.8; every record reaches it with itself, so the
\* seed is a member of its own cluster.
C4_SimilarIffScore ==
    (call.op = "findSimilarExpenses" /\ call.done) =>
        LET a == call.args[1]
            b == call.args[2]
            Score(x, y) ==
                ScoreReaches(
                    calculateStringSimilarity(toLowerCase(x.description),
                                              toLowerCase(y.description)),
                    calculateAmountSimilarity(x.amount, y.amount),
                    IF x.category = y.category THEN 1 ELSE 0)
        IN  /\ (b \in Range(call.result)) <=> Score(a, b)
            /\ a \in Range(call.result)
            /\ Score(a, a)
            /\ Score(b, b)

\* A record with another description was found similar to the seed.
C4_Witness ==
    /\ call.op = "findSimilarExpenses"
    /\ call.done
    /\ Len(call.result) = 2
    /\ call.args[1].description # call.args[2].description

\* C5: for positive amounts x and y, with diff = |x - y| and
\* tolerance = 0.15 * (x + y) / 2, amountSimilarity is 1 - diff / tolerance
\* when diff <= tolerance and 0 otherwise; it lies in [0, 1], is 1 exactly
\* when x = y, and is 0 when diff equals tolerance.
C5_AmountSimilarity ==
    (call.op = "calculateAmountSimilarity" /\ call.done) =>
        LET x    == call.args[1]
            y    == call.args[2]
            diff == Abs(x - y)
            r    == call.result
        IN  \* diff <= tolerance  <=>  40 * diff <= 3 * (x + y)
            /\ IF 40 * diff <= 3 * (x + y)
               THEN r = Rat(3 * (x + y) - 40 * diff, 3 * (x + y))
               ELSE r = Zero
            /\ r.den > 0 /\ r.num >= 0 /\ r.num <= r.den
            /\ (r.num = r.den) <=> (x = y)
            /\ (40 * diff = 3 * (x + y)) => r.num = 0

\* Two different amounts exactly one tolerance apart have been compared.
C5_Witness ==
    /\ call.op = "calculateAmountSimilarity"
    /\ call.done
    /\ call.args[1] # call.args[2]
    /\ 40 * Abs(call.args[1] - call.args[2]) = 3 * (call.args[1] + call.args[2])
    /\ call.result = Zero

\* C6 as stated: amountSimilarity(100, 115) is exactly 0,
\* amountSimilarity(100, 114.99) is small and strictly positive, and
\* amountSimilarity(100, 100) is 1.
C6_BoundaryAsStated ==
    (call.op = "calculateAmountSimilarity" /\ call.done) =>
        /\ call.args = <<10000, 11500>> => call.result = Zero
        /\ call.args = <<10000, 11499>> =>
              RatLess(Zero, call.result) /\ RatLess(call.result, Rat(1, 10))
        /\ call.args = <<10000, 10000>> => call.result = One

\* C6, amended: amountSimilarity(100, 115) is 3/43, small and strictly
\* positive (the tolerance is 15% of the mean 107.50, that is 16.125);
\* amountSimilarity(100, 114.99) is small and strictly positive;
\* amountSimilarity(100, 100) is 1; the value is exactly 0 where the
\* difference is 15% of the mean, as for 92.50 and 107.50.
C6_Boundary ==
    (call.op = "calculateAmountSimilarity" /\ call.done) =>
        /\ call.args = <<10000, 11500>> => call.result = Rat(3, 43)
        /\ call.args = <<10000, 11499>> =>
              RatLess(Zero, call.result) /\ RatLess(call.result, Rat(1, 10))
        /\ call.args = <<10000, 10000>> => call.result = One
        /\ call.args = <<9250, 10750>> => call.result = Zero

\* amountSimilarity(100, 115) has been computed.
C6_Witness ==
    /\ call.op = "calculateAmountSimilarity"
    /\ call.done
    /\ call.args = <<10000, 11500>>

RECURSIVE Levenshtein(_, _)
\* The edit distance by its defining recursion: insertion, deletion and
\* substitution cost 1 each.
Levenshtein(a, b) ==
    IF a = <<>> THEN Len(b)
    ELSE IF b = <<>> THEN Len(a)
    ELSE Min3(Levenshtein(Tail(a), b) + 1,
              Levenshtein(a, Tail(b)) + 1,
              Levenshtein(Tail(a), Tail(b)) + (IF Head(a) = Head(b) THEN 0 ELSE 1))

\* C7: stringSimilarity(a, b) = (maxLen - levenshtein(a, b)) / maxLen; it is
\* 1 for two empty strings, 0 for a non-empty and the empty string, 1 for
\* equal strings, and 6/7 for "netflix" and "netflex".
C7_StringSimilarity ==
    (call.op = "calculateStringSimilarity" /\ call.done) =>
        LET a      == call.args[1]
            b      == call.args[2]
            maxLen == Max(Len(a), Len(b))
            r      == call.result
        IN  /\ maxLen > 0 =>
                  r.num * maxLen = (maxLen - Levenshtein(a, b)) * r.den
            /\ (a = <<>> /\ b = <<>>) => r = One
            /\ ((a = <<>>) # (b = <<>>)) => r = Zero
            /\ a = b => r = One
            /\ (a = netflix /\ b = netflex) => r = Rat(6, 7)

\* "netflix" has been compared with "netflex".
C7_Witness ==
    /\ call.op = "calculateStringSimilarity"
    /\ call.done
    /\ call.args = <<netflix, netflex>>
    /\ call.result = Rat(6, 7)

\* The intervals in days between the consecutive records of a cluster.
IntervalsOf(cluster) ==
    [i \in 1..(Len(cluster) - 1) |-> cluster[i + 1].date - cluster[i].date]

\* The frequency the bands assign to the mean sum / n.
BandOfMean(sum, n) ==
    IF 6 * n <= sum /\ sum <= 8 * n THEN "weekly"
    ELSE IF 28 * n <= sum /\ sum <= 35 * n THEN "monthly"
    ELSE IF 85 * n <= sum /\ sum <= 95 * n THEN "quarterly"
    ELSE IF 360 * n <= sum /\ sum <= 370 * n THEN "yearly"
    ELSE "null"

CentreOf(frequency) ==
    CASE frequency = "weekly" -> 7
      [] frequency = "monthly" -> 30
      [] frequency = "quarterly" -> 90
      [] frequency = "yearly" -> 365

IsConstant(intervals) == \A i, j \in DOMAIN intervals : intervals[i] = intervals[j]

C9_SortedByConfidence ==
    \A i \in 1..(Len(detected) - 1) :
        detected[i].confidence >= detected[i + 1].confidence

\* The pattern accepted later (it took the later id) has the higher
\* confidence and is returned first.
C9_Witness ==
    /\ Len(detected) >= 2
    /\ detected[1].id > detected[2].id
    /\ detected[1].confidence > detected[2].confidence

WithoutId(pattern) == [f \in (DOMAIN pattern) \ {"id"} |-> pattern[f]]

SummaryOf(pattern) ==
    [expenseIds  |-> IdsOf(pattern),
     description |-> pattern.description,
     category    |-> pattern.category,
     frequency   |-> pattern.frequency,
     confidence  |-> pattern.confidence]

SortById(list) == StableSort(list, [i \in DOMAIN list |-> list[i].id])

\* C11: detectPatterns returns the same set of patterns (expenseIds sets,
\* description, category, frequency, confidence) for every order of the same
\* records, records sharing a date included.
C11_OrderIrrelevant ==
    (call.op = "detectPatterns" /\ call.done) =>
        {SummaryOf(p) : p \in PatternsOf(call.result)}
            = {SummaryOf(p) : p \in PatternsOf(detectPatterns(SortById(call.args), 1))}

IdsIn(list) == {list[i].id : i \in DOMAIN list}

\* C13: when the store holds the pattern detected for a seed and the history
\* grows by records similar to that seed, the next detection run appends no
\* second pattern for the same seed, that is, none with the same description
\* and category whose expenseIds contain those of the stored pattern.
C13_NoSecondPatternOnGrowth ==
    call.op = "detectPatterns" =>
        \A p \in PatternsOf(call.before) :
            \A q \in PatternsOf(loadPatterns) :
                (/\ q.id \notin IdsIn(call.before)
                 /\ q.description = p.description
                 /\ q.category = p.category)
                => ~(IdsOf(p) \subseteq IdsOf(q))

\* C14: confirmPattern(id) sets isConfirmed = true on the persisted pattern
\* with that id and changes nothing else: its other fields, the other
\* patterns and the order stay; with an unknown id the persisted list stays.
C14_ConfirmFrame ==
    call.op = "confirmPattern" =>
        LET id     == call.args[1]
            before == call.before
            after  == loadPatterns
        IN  /\ Len(after) = Len(before)
            /\ \A i \in DOMAIN before :
                  after[i] = IF before[i].id = id
                             THEN [before[i] EXCEPT !.isConfirmed = TRUE]
                             ELSE before[i]
            /\ id \notin IdsIn(before) => after = before

\* An unconfirmed pattern has been confirmed in a store of two patterns.
C14_Witness ==
    /\ call.op = "confirmPattern"
    /\ Len(call.before) >= 2
    /\ \E i \in DOMAIN call.before :
          /\ call.before[i].id = call.args[1]
          /\ ~call.before[i].isConfirmed
          /\ loadPatterns[i].isConfirmed

\* C15: dismissPattern(id) removes exactly the persisted pattern with that
\* id, confirmed or not, and leaves the other patterns and their relative
\* order; with an unknown id the content of the persisted list stays.
C15_DismissFrame ==
    call.op = "dismissPattern" =>
        LET id     == call.args[1]
            before == call.before
            after  == loadPatterns
            Other(p) == p.id # id
        IN  /\ after = SelectSeq(before, Other)
            /\ id \notin IdsIn(after)
            /\ Len(after) = Len(before) - (IF id \in IdsIn(before) THEN 1 ELSE 0)
            /\ id \notin IdsIn(before) => after = before

\* A confirmed pattern has been dismissed and another pattern is left.
C15_Witness ==
    /\ call.op = "dismissPattern"
    /\ \E i \in DOMAIN call.before :
          call.before[i].id = call.args[1] /\ call.before[i].isConfirmed
    /\ Len(loadPatterns) >= 1
    /\ Len(loadPatterns) = Len(call.before) - 1

\* C16: a stored pattern persists until it is dismissed: across every
\* detection run (on an unchanged, grown or shrunk history), confirmPattern
\* and updatePatternAfterExpense call, a confirmed pattern stays in the store
\* under its id with isConfirmed = true, and an id leaves the store only by
\* dismissPattern of that id.
C16_PersistsUntilDismissed ==
    [][ \A i \in DOMAIN loadPatterns :
           \/ call'.op = "dismissPattern" /\ call'.args[1] = loadPatterns[i].id
           \/ \E j \in DOMAIN loadPatterns' :
                 /\ loadPatterns'[j].id = loadPatterns[i].id
                 /\ loadPatterns[i].isConfirmed => loadPatterns'[j].isConfirmed
      ]_vars

\* A confirmed pattern is still stored and confirmed after a detection run
\* on a history emptied of its expenses.
C16_Witness ==
    /\ call.op = "detectPatterns"
    /\ expenses = <<>>
    /\ \E i \in DOMAIN call.before :
          /\ call.before[i].isConfirmed
          /\ \E j \in DOMAIN loadPatterns :
                /\ loadPatterns[j].id = call.before[i].id
                /\ loadPatterns[j].isConfirmed

\* C17: dismiss is terminal for a pattern id: no later operation puts a
\* pattern with a dismissed id back into the store, and a later
\* confirmPattern or updatePatternAfterExpense with that id changes nothing.
C17_DismissTerminal ==
    /\ IdsIn(loadPatterns) \cap dismissed = {}
    /\ (/\ call.op \in {"confirmPattern", "updatePatternAfterExpense"}
        /\ call.args[1] \in dismissed)
       => loadPatterns = call.before

\* After a dismissal and a further detection run that stored a pattern, the
\* dismissed id has been passed to confirmPattern or
\* updatePatternAfterExpense.
C17_Witness ==
    /\ call.op \in {"confirmPattern", "updatePatternAfterExpense"}
    /\ call.args[1] \in dismissed
    /\ call.prev.op = "detectPatterns"
    /\ loadPatterns # <<>>

SameCluster(p, q) ==
    /\ p.description = q.description
    /\ p.category = q.category
    /\ p.frequency = q.frequency
    /\ p.expenseIds = q.expenseIds

\* The pattern that the dismissPattern call before the latest call removed.
JustDismissed ==
    {p \in PatternsOf(call.prev.before) :
        call.prev.op = "dismissPattern" /\ p.id = call.prev.args[1]}

\* The merge test, in the words of the specification: same description,
\* same category, average amounts less than 1.0 apart.
NearDuplicate(p, q) ==
    /\ p.description = q.description
    /\ p.category = q.category
    /\ RatLess(Rat(Abs(p.averageAmount.num * q.averageAmount.den
                       - q.averageAmount.num * p.averageAmount.den),
                   p.averageAmount.den * q.averageAmount.den),
               Rat(100, 1))

AdvancedByCadence(date, frequency) ==
    LET c == CivilFromDays(date)
    IN  CASE frequency = "weekly"    -> date + 7
          [] frequency = "monthly"   -> MakeDay(c.year, c.month + 1, c.date)
          [] frequency = "quarterly" -> MakeDay(c.year, c.month + 3, c.date)
          [] frequency = "yearly"    -> MakeDay(c.year + 1, c.month, c.date)

\* C19: advanceAfterNewExpense(id, d) sets the matching pattern's
\* lastOccurrence to d and its nextExpectedDate to d advanced by one step of
\* the stored frequency, confirmed or not, and leaves its other fields and
\* every other pattern; with an unknown id the persisted list stays.
C19_AdvanceFrame ==
    call.op = "updatePatternAfterExpense" =>
        LET id     == call.args[1]
            d      == call.args[2]
            before == call.before
            after  == loadPatterns
        IN  /\ Len(after) = Len(before)
            /\ \A i \in DOMAIN before :
                  after[i] = IF before[i].id = id
                             THEN [before[i] EXCEPT
                                      !.lastOccurrence = d,
                                      !.nextExpectedDate =
                                          AdvancedByCadence(d, before[i].frequency)]
                             ELSE before[i]
            /\ id \notin IdsIn(before) => after = before

\* C20: in every reachable state of the store each stored pattern's
\* nextExpectedDate is its lastOccurrence advanced by exactly one cadence
\* unit of its frequency.
C20_NextIsLastPlusCadence ==
    \A p \in PatternsOf(loadPatterns) :
        p.nextExpectedDate = AdvancedByCadence(p.lastOccurrence, p.frequency)


\* C21: getUpcomingRecurringExpenses returns one entry for each confirmed
\* pattern and none for an unconfirmed one, with daysUntilDue the ceiling of
\* (nextExpectedDate - now) in days and isOverdue true exactly when
\* daysUntilDue < 0, ordered by non-decreasing daysUntilDue; for confirmed
\* patterns due 3 days ago and in 5 days it returns the overdue one first
\* (-3, overdue), then the other one (5, not overdue).
C21_Upcoming ==
    (call.op = "getUpcomingRecurringExpenses" /\ call.done) =>
        LET patterns == call.args[1]
            now      == call.args[2]
            result   == call.result
            confirmed == {i \in DOMAIN patterns : patterns[i].isConfirmed}
        IN  /\ Len(result) = Cardinality(confirmed)
            /\ {e.pattern : e \in Range(result)} = {patterns[i] : i \in confirmed}
            /\ \A e \in Range(result) :
                  LET hours == e.pattern.nextExpectedDate * 24 - now
                  IN  /\ e.daysUntilDue * 24 >= hours
                      /\ (e.daysUntilDue - 1) * 24 < hours
                      /\ e.isOverdue <=> (e.daysUntilDue < 0)
            /\ \A i, j \in DOMAIN result :
                  i < j => result[i].daysUntilDue <= result[j].daysUntilDue
            /\ (Len(patterns) = 2 /\ confirmed = {1, 2}
                  /\ {patterns[i].nextExpectedDate : i \in 1..2}
                         = {now \div 24 - 3, now \div 24 + 5})
               => /\ result[1].daysUntilDue = -3 /\ result[1].isOverdue
                  /\ result[2].daysUntilDue = 5 /\ ~result[2].isOverdue

\* The pattern due in 5 days was stored before the confirmed pattern due 3
\* days ago, and the overdue one has been returned first.
C21_Witness ==
    /\ call.op = "getUpcomingRecurringExpenses"
    /\ call.done
    /\ Len(call.args[1]) = 2
    /\ call.args[1][1].nextExpectedDate = Today + 5
    /\ call.args[1][1].isConfirmed
    /\ call.args[1][2].nextExpectedDate = Today - 3
    /\ Len(call.result) = 2
    /\ call.result[1].isOverdue
    /\ call.result[1].daysUntilDue = -3
    /\ call.result[2].daysUntilDue = 5


\* The stored item is nothing or the JSON of a list of patterns.
WellFormedItem(item) == item = Null \/ "json" \in DOMAIN item

\* C22: a failure of the storage is never propagated: when the read or the
\* write throws, none of loadPatterns, savePatterns, confirmPattern,
\* dismissPattern and updatePatternAfterExpense raises to its caller (a call
\* raises only after a read that succeeded on an item that is not a pattern
\* list, which is no failure of the storage); loadPatterns then returns the
\* empty list, and a write that failed leaves the stored item as it was.
C22_StorageFailureContained ==
    (call.op # "none" /\ (call.getItemThrows \/ call.setItemThrows)) =>
        /\ call.threw => (~call.getItemThrows /\ ~WellFormedItem(call.before))
        /\ (call.op = "loadPatterns" /\ call.getItemThrows) =>
               (call.isArray /\ call.result = <<>>)
        /\ call.setItemThrows => store = call.before

\* A dismissal found its pattern and its write failed.
C22_Witness ==
    /\ call.op = "dismissPattern"
    /\ call.setItemThrows
    /\ ~call.getItemThrows
    /\ ~call.threw
    /\ WellFormedItem(call.before)
    /\ call.before # Null
    /\ find(JSONparse(call.before), call.args[1]) # 0
    /\ store = call.before


\* C23: loadPatterns always returns a list (the stored list, or the empty
\* list when nothing is stored, when the stored text cannot be parsed or when
\* it parses to something that is not a list of patterns), and
\* confirmPattern, dismissPattern and updatePatternAfterExpense never raise,
\* whatever the stored item is.
C23_LoadAlwaysList ==
    call.op # "none" =>
        /\ ~call.threw
        /\ call.op = "loadPatterns" => call.isArray
        /\ (call.op = "loadPatterns" /\ ~WellFormedItem(call.before)) =>
               call.result = <<>>


\* The records of the history similar to a seed, by date: the seed's cluster.
SeedCluster(seed) ==
    LET Similar(r) == r.id = seed.id \/ RecordsScoreReaches(seed, r)
    IN  SortByDate(SelectSeq(SortByDate(expenses), Similar))

ExpenseIdsOf(cluster) == [i \in DOMAIN cluster |-> cluster[i].id]

\* The mean interval of a cluster of two or more records lies in no band
\* (a mean of zero included).
InNoBand(cluster) ==
    /\ Len(cluster) >= 2
    /\ BandOfMean(SumSeq(IntervalsOf(cluster)), Len(cluster) - 1) = "null"

\* The cluster passes the analyzer: a band and a confidence of 0.6 or more.
Accepted(cluster) ==
    /\ Len(cluster) >= 2
    /\ BandOfMean(SumSeq(IntervalsOf(cluster)), Len(cluster) - 1) # "null"
    /\ determineFrequency(IntervalsOf(cluster)).confidence >= 600

\* C24: degenerate input gives no pattern and no error: an empty or
\* one-element history returns the empty list; a cluster whose mean interval
\* is zero or lies in no band gives no pattern for its seed; its members are
\* not marked processed, so that every record whose own cluster passes the
\* analyzer is still reached, as a seed or as a member of an accepted cluster.
C24_DegenerateInput ==
    runs >= 1 =>
        /\ Len(expenses) <= 1 => detected = <<>>
        /\ \A i \in DOMAIN expenses :
              InNoBand(SeedCluster(expenses[i])) =>
                  \A p \in PatternsOf(detected) :
                      p.expenseIds # ExpenseIdsOf(SeedCluster(expenses[i]))
        /\ \A i \in DOMAIN expenses :
              Accepted(SeedCluster(expenses[i])) =>
                  \E p \in PatternsOf(detected) : expenses[i].id \in IdsOf(p)

\* The cluster of an earlier seed lay in no band, and a later member of that
\* cluster has been accepted as the seed of a pattern.
C24_Witness ==
    /\ runs >= 1
    /\ \E i, j \in DOMAIN expenses :
          /\ i < j
          /\ expenses[i].date < expenses[j].date
          /\ InNoBand(SeedCluster(expenses[i]))
          /\ expenses[j] \in Range(SeedCluster(expenses[i]))
          /\ \E p \in PatternsOf(detected) :
                /\ p.expenseIds = ExpenseIdsOf(SeedCluster(expenses[j]))
                /\ p.description = expenses[j].description
                /\ \A k \in DOMAIN expenses :
                      expenses[k].date < expenses[j].date =>
                          ExpenseIdsOf(SeedCluster(expenses[k])) # p.expenseIds


SeedPositions(pattern) ==
    LET sortedExpenses == SortByDate(expenses)
    IN  {k \in DOMAIN sortedExpenses :
            /\ sortedExpenses[k].description = pattern.description
            /\ sortedExpenses[k].category = pattern.category
            /\ ExpenseIdsOf(SeedCluster(sortedExpenses[k])) = pattern.expenseIds}

FirstOf(positions) == CHOOSE k \in positions : \A l \in positions : k <= l

\* C26: each returned pattern summarises the cluster of one seed: its
\* description and category are the seed's, its expenseIds are the ids of
\* all records of the input similar to the seed (the seed included, records
\* of an earlier pattern included), its averageAmount is the mean of their
\* amounts, its lastOccurrence their latest date; and the seed is in the
\* expenseIds of no pattern whose seed comes earlier in date order.
C26_SeedRelativeCluster ==
    runs >= 1 =>
        \A p \in PatternsOf(detected) :
            /\ SeedPositions(p) # {}
            /\ LET sortedExpenses == SortByDate(expenses)
                   seed    == sortedExpenses[FirstOf(SeedPositions(p))]
                   members == {r \in Range(expenses) :
                                  r.id = seed.id \/ RecordsScoreReaches(seed, r)}
               IN  /\ IdsOf(p) = {r.id : r \in members}
                   /\ Len(p.expenseIds) = Cardinality(members)
                   /\ p.averageAmount
                         = Rat(SumSeq([k \in DOMAIN p.expenseIds |->
                                         (CHOOSE r \in members :
                                              r.id = p.expenseIds[k]).amount]),
                               Len(p.expenseIds))
                   /\ \E r \in members : r.date = p.lastOccurrence
                   /\ \A r \in members : r.date <= p.lastOccurrence
                   /\ \A q \in PatternsOf(detected) :
                         (/\ SeedPositions(q) # {}
                          /\ FirstOf(SeedPositions(q)) < FirstOf(SeedPositions(p)))
                         => seed.id \notin IdsOf(q)

\* A returned pattern holds a record that is also in the pattern of an
\* earlier seed, and the seed of a returned pattern is not the earliest
\* record of its cluster and is spelt differently from it.
C26_Witness ==
    /\ runs >= 1
    /\ \E p, q \in PatternsOf(detected) :
          /\ SeedPositions(p) # {} /\ SeedPositions(q) # {}
          /\ FirstOf(SeedPositions(q)) < FirstOf(SeedPositions(p))
          /\ IdsOf(p) \cap IdsOf(q) # {}
          /\ p.averageAmount # q.averageAmount
    /\ \E p \in PatternsOf(detected) :
          /\ SeedPositions(p) # {}
          /\ FirstOf(SeedPositions(p)) > 1
          /\ SortByDate(expenses)[1].id = p.expenseIds[1]
          /\ SortByDate(expenses)[1].description # p.description

\* C27: repeated runs on unchanged data are stable: whatever was stored
\* before, once the detection effect has run over an expense list, a further
\* run over the same list leaves the stored pattern list as it is (same
\* patterns, ids, order and isConfirmed flags).
C27_RepeatedRunsStable ==
    (/\ call.op = "detectPatterns"
     /\ call.prev.op = "detectPatterns"
     /\ call.args = call.prev.args)
    => loadPatterns = call.before

\* The detection effect has run twice in a row over one history on a store
\* that held a pattern before the first of the two runs; the second run
\* detected patterns and stored none of them.
C27_Witness ==
    /\ call.op = "detectPatterns"
    /\ call.prev.op = "detectPatterns"
    /\ call.args = call.prev.args
    /\ call.prev.before # <<>>
    /\ Len(call.before) > Len(call.prev.before)
    /\ detected # <<>>
    /\ loadPatterns = call.before


\* No two patterns of the list have the same description, the same category
\* and average amounts less than 1.0 apart.
DuplicateFree(list) ==
    \A i, j \in DOMAIN list : i # j => ~NearDuplicate(list[i], list[j])

\* C28: merging keeps the stored list free of duplicates: when no two
\* patterns of the existing list are duplicates of each other, no two
\* patterns of the list stored by the detection effect are.
C28_MergeKeepsDuplicateFree ==
    (call.op = "detectPatterns" /\ DuplicateFree(call.before))
        => DuplicateFree(loadPatterns)


\* The amounts x and y differ by more than tenths tenths of their mean.
DifferByMoreThan(x, y, tenths) == 20 * Abs(x - y) > tenths * (x + y)

\* C29: the threshold makes the effective amount tolerance 10%: two distinct
\* records whose amounts differ by more than 10% of their mean are never
\* judged similar, whatever their descriptions and categories.
C29_EffectiveTolerance ==
    (call.op = "findSimilarExpenses" /\ call.done) =>
        LET a == call.args[1]
            b == call.args[2]
        IN  (a.id # b.id /\ DifferByMoreThan(a.amount, b.amount, 1))
                => b \notin Range(call.result)

\* Two records of one description and category whose amounts differ by more
\* than 10% of their mean but by less than 11% of it, well inside the 15% of
\* AMOUNT_TOLERANCE, have been found not similar.
C29_Witness ==
    /\ call.op = "findSimilarExpenses"
    /\ call.done
    /\ call.args[1].description = call.args[2].description
    /\ call.args[1].category = call.args[2].category
    /\ DifferByMoreThan(call.args[1].amount, call.args[2].amount, 1)
    /\ 40 * Abs(call.args[1].amount - call.args[2].amount)
           < 3 * (call.args[1].amount + call.args[2].amount)
    /\ 200 * Abs(call.args[1].amount - call.args[2].amount)
           < 11 * (call.args[1].amount + call.args[2].amount)
    /\ call.args[2] \notin Range(call.result)


\* C30: for a cluster of exactly two expenses the confidence gate never
\* rejects: the single interval has no deviation, the confidence is
\* 0.6 + 0.4 * frequencyConfidence >= 0.6, and a pattern is produced exactly
\* when the number of days between the two dates lies in one of the four
\* frequency bands.
C30_TwoExpenseCluster ==
    (call.op = "analyzePattern" /\ call.done /\ Len(call.args) = 2) =>
        LET days == Abs(call.args[2].date - call.args[1].date)
            band == BandOfMean(days, 1)
        IN  /\ (call.result # Null) <=> (band # "null")
            /\ call.result # Null =>
                  /\ call.result.frequency = band
                  /\ call.result.confidence
                        = 600 + (400 * (CentreOf(band) - Abs(days - CentreOf(band))))
                                    \div CentreOf(band)
                  /\ call.result.confidence >= 600

\* A pattern has been produced for two expenses whose distance is at the edge
\* of a band, with a confidence below 1.
C30_Witness ==
    /\ call.op = "analyzePattern"
    /\ call.done
    /\ Len(call.args) = 2
    /\ call.args[2].date - call.args[1].date = 35
    /\ call.result # Null
    /\ call.result.frequency = "monthly"
    /\ call.result.confidence < 1000

====
